---- MODULE Spec2Model ----
(***************************************************************************)
(* Model of neuro::ProcessManager (process_handler.cpp / process_handler.h) *)
(* on its POSIX build: the process table, the channel table, the manager   *)
(* mutex, the caller threads that run the public operations, the detached  *)
(* monitor threads and the child processes of the operating system (Spec); *)
(* of the process table with its accessor (SpecTable); of the event loop   *)
(* with the router's handlers (SpecLoop); of the program of main.cpp with   *)
(* its signal handler (SpecMain); of MessageRouter (SpecRouter) and        *)
(* its lock (SpecDispatch); of FileIPCChannel (SpecFileIPC) and            *)
(* StdioChannel (SpecStdio); and of MessageValidator and the Message codec *)
(* (SpecMessage).                                                          *)
(***************************************************************************)
EXTENDS Integers, Sequences, FiniteSets, TLC

\* ------------------------------------------------------------------ bounds
MaxOps == 4          \* public operations the callers may begin in one run
MaxAuxOps == 1       \* of these, the operations begun by the second thread
MaxSpawns == 2       \* fork() calls that succeed in one run
MaxMonitors == 2     \* monitor threads alive at the same time
MaxAttempts == 1     \* largest config.max_restart_attempts registered
MaxHandlers == 3     \* register_handler calls in one run of the router
MaxRoutes == 2       \* route_message calls in one run of the router
MaxReceives == 2     \* receive calls in one run of a channel
MaxPipe == 3         \* writes a pipe holds before it is read

\* ------------------------------------------------------------ the universe
NameSeq == <<"a", "b">>     \* process names, in std::map key order
Names == {NameSeq[i] : i \in 1..Len(NameSeq)}
Rank(n) == CHOOSE i \in 1..Len(NameSeq) : NameSeq[i] = n
NoName == "-"               \* no name: begin() of an iteration, no argument

Callers == {"main", "aux"}  \* threads that call the public operations
MonitorSeq == <<"monitor1", "monitor2", "monitor3", "monitor4">>
Monitors == {MonitorSeq[i] : i \in 1..MaxMonitors}  \* detached monitor threads
Threads == Callers \cup Monitors
NoThread == "free"

Pids == 1..MaxSpawns        \* pids fork() hands out; 0 is "no child"

\* enum class CommMethod: the ordinal is part of the channel key
MethodOrd(m) == IF m = "STDIO" THEN 0 ELSE 1

\* struct ProcessConfig, the fields the supervisor reads.  The policies
\* registered: restart on a crash, up to MaxAttempts times, no channel and no
\* heartbeat; no restart, a Stdio channel, watched by heartbeat.
Policies ==
    {[auto_restart |-> TRUE, max_restart_attempts |-> MaxAttempts,
      enable_heartbeat |-> FALSE, comm_methods |-> <<>>],
     [auto_restart |-> FALSE, max_restart_attempts |-> 0,
      enable_heartbeat |-> TRUE, comm_methods |-> <<"STDIO">>]}
Configs(n) ==
    {[name |-> n, depends_on |-> deps, auto_restart |-> p.auto_restart,
      max_restart_attempts |-> p.max_restart_attempts,
      enable_heartbeat |-> p.enable_heartbeat, comm_methods |-> p.comm_methods] :
        deps \in SUBSET (Names \ {n}), p \in Policies}

\* ------------------------------------------------------------- the messages
\* enum class MessageType in declaration order; to_json writes the ordinal
MessageTypeSeq == <<"COMMAND", "RESPONSE", "EVENT", "HEARTBEAT", "SHUTDOWN", "ERROR">>
MessageTypes == {MessageTypeSeq[i] : i \in 1..Len(MessageTypeSeq)}
TypeOrd(ty) == (CHOOSE i \in 1..Len(MessageTypeSeq) : MessageTypeSeq[i] = ty) - 1

\* is_safe_json's limit on json.length()
MaxJsonLength == 1024 * 1024

\* struct Message.  The payload `data` is modelled by its length in bytes, the
\* one thing the validator reads of it.
Timestamps == {0, 7}
DataLengths == {2, MaxJsonLength, MaxJsonLength + 1}
Messages ==
    [type : {"COMMAND", "HEARTBEAT"}, source_process : {"", "a"},
     target_process : {"", "manager"}, command : {"", "ping"},
     data : DataLengths, timestamp : Timestamps, message_id : {"", "id1"}]

\* the envelope a child sends as its heartbeat
HeartbeatFrom(n) ==
    [type |-> "HEARTBEAT", source_process |-> n, target_process |-> "manager",
     command |-> "heartbeat", data |-> 2, timestamp |-> 7, message_id |-> "id1"]

\* a Message whose members are all zero or empty
EmptyMessage ==
    [type |-> "COMMAND", source_process |-> "", target_process |-> "",
     command |-> "", data |-> 0, timestamp |-> 0, message_id |-> ""]

\* the empty string: nothing read, nothing returned yet
NoText == <<>>

\* the router's commands and the functions registered as handlers
Commands == {"ping", "pong"}
HandlerIds == {"h1", "h2"}
RoutedMessages ==
    {[type |-> "COMMAND", source_process |-> "a", target_process |-> "manager",
      command |-> c, data |-> 2, timestamp |-> 7, message_id |-> "id1"] :
        c \in Commands}

VARIABLES
    processes,      \* std::map<string, ProcessInfo>
    channels,       \* std::map<string, unique_ptr<ICommChannel>>
    running,        \* ProcessManager::running
    manager_mutex,  \* owner of ProcessManager::manager_mutex
    children,       \* the OS's view of every pid: none, alive, zombie, reaped
    halted,         \* the supervisor process itself was terminated
    pc,             \* each thread's position
    stack,          \* each thread's return addresses
    local,          \* each thread's arguments and loop variables
    result,         \* the value the thread's last bool operation returned
    ops,            \* public operations begun so far
    handlers,       \* MessageRouter::handlers
    calls,          \* the handler invocations made so far, in order
    routed,         \* messages handed to route_message so far
    msg,            \* a Message handed to the validator and the codec
    error,          \* the std::string& error of validate_message
    valid,          \* what validate_message returned
    json,           \* what Message::to_json returned
    decoded,        \* what Message::from_json returned, if it was called
    response_file,  \* the file at FileIPCChannel::response_file_path
    receiving,      \* the position of the thread inside a channel's receive
    received,       \* what the receive calls returned so far, in order
    stdout_pipe,    \* the bytes in the pipe behind StdioChannel::stdout_pipe
    unwritten,      \* the rest of the line the child is writing
    router_mutex,   \* owner of MessageRouter::router_mutex
    dispatch        \* each caller's position inside route_message

manager_vars == <<processes, channels, running, manager_mutex, children, halted,
                  pc, stack, local, result, ops>>
router_vars == <<handlers, calls, routed>>
message_vars == <<msg, error, valid, json, decoded>>
stdio_vars == <<stdout_pipe, unwritten>>
channel_vars == <<response_file, receiving, received, stdio_vars>>
dispatch_vars == <<router_mutex, dispatch>>
vars == <<manager_vars, router_vars, message_vars, channel_vars, dispatch_vars>>

EmptyMap == <<>>

\* a file: whether it exists and the text in it
NoFile == [exists |-> FALSE, text |-> NoText]
\* a caller that is not inside route_message
NoDispatch == [at |-> "idle", msg |-> EmptyMessage, i |-> 0]
\* no receive call under way
NotReceiving == [at |-> "idle", json |-> NoText, timeout_ms |-> 0, elapsed |-> 0]
NoLocal == [name |-> NoName, force |-> FALSE, it |-> NoName, progress |-> FALSE,
            chan_it |-> <<>>, snap |-> {}, seen |-> {}]

Init ==
    /\ processes = EmptyMap
    /\ channels = EmptyMap
    /\ running = FALSE
    /\ manager_mutex = NoThread
    /\ children = [p \in Pids |-> "none"]
    /\ halted = FALSE
    /\ pc = [t \in Threads |-> IF t \in Callers THEN "idle" ELSE "none"]
    /\ stack = [t \in Threads |-> <<>>]
    /\ local = [t \in Threads |-> NoLocal]
    /\ result = [t \in Threads |-> "none"]
    /\ ops = [t \in Callers |-> 0]
    /\ handlers = EmptyMap
    /\ calls = <<>>
    /\ routed = 0
    /\ msg = EmptyMessage
    /\ error = ""
    /\ valid = "none"
    /\ json = NoText
    /\ decoded = <<>>
    /\ response_file = NoFile
    /\ receiving = NotReceiving
    /\ received = <<>>
    /\ stdout_pipe = <<>>
    /\ unwritten = <<>>
    /\ router_mutex = NoThread
    /\ dispatch = [t \in Callers |-> NoDispatch]


\* ----------------------------------------------------------------- helpers
\* thread t is at label l of a supervisor that still runs
At(t, l) == ~halted /\ pc[t] = l

\* thread t is free to begin a public operation
CanCall(t) ==
    /\ ~halted
    /\ pc[t] = "idle"
    /\ ops["main"] + ops["aux"] < MaxOps
    /\ t = "aux" => ops[t] < MaxAuxOps
Registered == DOMAIN processes

\* the first key after `it` in std::map order, or NoName at end()
NextName(it) ==
    LET later == {n \in Registered : it = NoName \/ Rank(n) > Rank(it)}
    IN IF later = {} THEN NoName
       ELSE CHOOSE n \in later : \A o \in later : Rank(n) <= Rank(o)

\* channel keys are name + "_" + ordinal; the map orders them as strings
KeyLess(k1, k2) ==
    \/ Rank(k1[1]) < Rank(k2[1])
    \/ k1[1] = k2[1] /\ k1[2] < k2[2]
NextKey(it) ==
    LET later == {k \in DOMAIN channels : it = <<>> \/ KeyLess(it, k)}
    IN IF later = {} THEN <<>>
       ELSE CHOOSE k \in later : \A o \in later : k = o \/ KeyLess(k, o)

FreePids == {p \in Pids : children[p] = "none"}
FreeMonitors == {i \in 1..MaxMonitors : pc[MonitorSeq[i]] = "none"}

\* return from the function on top of thread t's stack with value val
ReturnTo(t) ==
    IF stack[t] = <<>> THEN (IF t \in Callers THEN "idle" ELSE "none")
    ELSE Head(stack[t])
PopStack(t) == IF stack[t] = <<>> THEN <<>> ELSE Tail(stack[t])
\* a thread back at its top level forgets its locals
LocalAfter(t, l) == IF stack[t] = <<>> THEN NoLocal ELSE l

\* ------------------------------------------------------------------ Message
\* Message::to_json: the fields in the order written, the type as its ordinal
to_json(m) ==
    <<"type", TypeOrd(m.type), "source", m.source_process,
      "target", m.target_process, "command", m.command, "data", m.data,
      "timestamp", m.timestamp, "message_id", m.message_id>>

\* Message::from_json: `Message msg; return msg;`.  The strings are empty;
\* type and timestamp are left uninitialised, so they hold any value.
from_json(text) ==
    {[type |-> ty, source_process |-> "", target_process |-> "", command |-> "",
      data |-> 0, timestamp |-> ts, message_id |-> ""] :
        ty \in MessageTypes, ts \in Timestamps}

\* ---------------------------------------------------------- MessageValidator
\* an is_safe_json that refuses a payload of exactly the limit
is_safe_json_below(data) == data < MaxJsonLength

is_safe_json(data) == ~(data > MaxJsonLength)

\* validate_message(msg, error): the value returned and the error string
\* afterwards, err being the string before the call
validate_message(m, err) ==
    IF m.source_process = ""
    THEN [ok |-> FALSE, error |-> "Source process is empty"]
    ELSE IF m.target_process = ""
    THEN [ok |-> FALSE, error |-> "Target process is empty"]
    ELSE IF m.command = ""
    THEN [ok |-> FALSE, error |-> "Command is empty"]
    ELSE IF ~is_safe_json(m.data)
    THEN [ok |-> FALSE, error |-> "Invalid JSON data"]
    ELSE [ok |-> TRUE, error |-> err]

\* ------------------------------------------------------------- MessageRouter
\* handlers.find(msg.command): the vector found, or none
handlers_for(m) ==
    IF m.command \in DOMAIN handlers THEN handlers[m.command] ELSE <<>>

\* a route_message that walks the vector from its end
invoke_all_reversed(hs, m) == [i \in 1..Len(hs) |-> <<hs[Len(hs) + 1 - i], m>>]

\* for (auto& handler : it->second) handler(msg), as the invocations made
invoke_all(hs, m) == [i \in 1..Len(hs) |-> <<hs[i], m>>]

\* route_message(msg) on the router's state
route_message(m) ==
    /\ calls' = calls \o invoke_all(handlers_for(m), m)
    /\ routed' = routed + 1
    /\ UNCHANGED handlers

\* ---------------------------------------------------------- register_process
ChannelKeys(config) ==
    {<<config.name, MethodOrd(config.comm_methods[i])>> :
        i \in 1..Len(config.comm_methods)}

\* a get_process_state that reports an unknown name as CREATED
get_process_state_unknown_created(name) ==
    IF name \in Registered THEN processes[name].state ELSE "CREATED"

\* get_process_state(name): the record's state, STOPPED for an unknown name
get_process_state(name) ==
    IF name \in Registered THEN processes[name].state ELSE "STOPPED"

\* get_all_processes(): the records, in key order
RECURSIVE records_from(_)
records_from(it) ==
    LET n == NextName(it) IN
    IF n = NoName THEN <<>> ELSE <<processes[n]>> \o records_from(n)
get_all_processes == records_from(NoName)

\* register_process with a record that starts with one restart counted
NewProcessInfo_counted(config) ==
    [config |-> config, state |-> "CREATED", platform_handle |-> 0, pid |-> 0,
     restart_count |-> 1, last_error |-> "", last_heartbeat |-> "overdue"]

\* register_process with a record that starts out STOPPED
NewProcessInfo_stopped(config) ==
    [config |-> config, state |-> "STOPPED", platform_handle |-> 0, pid |-> 0,
     restart_count |-> 0, last_error |-> "", last_heartbeat |-> "overdue"]

\* ProcessInfo info: last_heartbeat is a default time_point, the epoch, which
\* lies further back than any heartbeat_timeout.  The model keeps of
\* last_heartbeat whether now - last_heartbeat > heartbeat_timeout ("overdue")
\* or not ("recent").
NewProcessInfo(config) ==
    [config |-> config, state |-> "CREATED", platform_handle |-> 0, pid |-> 0,
     restart_count |-> 0, last_error |-> "", last_heartbeat |-> "overdue"]

\* a register_process that takes every name for a new one
already_registered_never(config) == FALSE

\* processes.find(config.name) != processes.end()
already_registered(config) == config.name \in Registered

register_process(t, config) ==
    /\ CanCall(t) /\ ops' = [ops EXCEPT ![t] = @ + 1]
    /\ manager_mutex = NoThread
    /\ IF already_registered(config)
       THEN /\ result' = [result EXCEPT ![t] = "false"]
            /\ UNCHANGED <<processes, channels>>
       ELSE /\ processes' = (config.name :> NewProcessInfo(config)) @@ processes
            /\ channels' = [k \in ChannelKeys(config) |-> [closes |-> 0]] @@ channels
            /\ result' = [result EXCEPT ![t] = "true"]
    /\ UNCHANGED <<running, manager_mutex, children, halted, pc, stack, local>>
    /\ UNCHANGED <<router_vars, message_vars, channel_vars, dispatch_vars>>

\* ------------------------------------------------------------ start_process
\* check_dependencies_ready without its loop over depends_on
check_dependencies_ready_skipped(config) == TRUE

check_dependencies_ready(config) ==
    \A dep \in config.depends_on :
        dep \in Registered /\ processes[dep].state = "RUNNING"

\* start_process up to `info.state = STARTING`: the lock is taken, the name is
\* looked up and the dependencies are checked
start_process(t) ==
    /\ At(t, "start_process")
    /\ manager_mutex = NoThread
    /\ LET n == local[t].name IN
       IF n \notin Registered \/ ~check_dependencies_ready(processes[n].config)
       THEN /\ pc' = [pc EXCEPT ![t] = ReturnTo(t)]
            /\ stack' = [stack EXCEPT ![t] = PopStack(t)]
            /\ local' = [local EXCEPT ![t] = LocalAfter(t, @)]
            /\ result' = [result EXCEPT ![t] = "false"]
            /\ UNCHANGED <<processes, manager_mutex>>
       ELSE /\ FreePids # {} /\ FreeMonitors # {}
            /\ processes' = [processes EXCEPT ![n].state = "STARTING"]
            /\ manager_mutex' = t
            /\ pc' = [pc EXCEPT ![t] = "spawn"]
            /\ UNCHANGED <<stack, local, result>>
    /\ UNCHANGED <<channels, running, children, halted, ops>>
    /\ UNCHANGED <<router_vars, message_vars, channel_vars, dispatch_vars>>

\* spawn_process and the rest of start_process: fork() fails (CRASHED) or
\* hands out a pid (RUNNING), and the monitor thread is launched
spawn_process_failed(info) ==
    [info EXCEPT !.last_error = "Fork failed", !.state = "CRASHED"]
spawn_process_ok(info, pid) ==
    [info EXCEPT !.platform_handle = pid, !.pid = pid, !.state = "RUNNING",
                 !.last_heartbeat = "recent"]

spawn(t) ==
    /\ At(t, "spawn")
    /\ LET n == local[t].name
           mine == LocalAfter(t, local[t])
       IN
       \/ /\ processes' = (IF n \in Registered
                           THEN [processes EXCEPT ![n] = spawn_process_failed(@)]
                           ELSE processes)
          /\ result' = [result EXCEPT ![t] = "false"]
          /\ pc' = [pc EXCEPT ![t] = ReturnTo(t)]
          /\ local' = [local EXCEPT ![t] = mine]
          /\ UNCHANGED children
       \/ \E pid \in FreePids, i \in FreeMonitors :
            /\ \A q \in FreePids : pid <= q
            /\ \A j \in FreeMonitors : i <= j
            /\ children' = [children EXCEPT ![pid] = "alive"]
            /\ processes' = (IF n \in Registered
                             THEN [processes EXCEPT ![n] = spawn_process_ok(@, pid)]
                             ELSE processes)
            /\ result' = [result EXCEPT ![t] = "true"]
            /\ pc' = [pc EXCEPT ![t] = ReturnTo(t), ![MonitorSeq[i]] = "mon_while"]
            /\ local' = [local EXCEPT ![t] = mine,
                                      ![MonitorSeq[i]] = [NoLocal EXCEPT !.name = n]]
    /\ manager_mutex' = NoThread
    /\ stack' = [stack EXCEPT ![t] = PopStack(t)]
    /\ UNCHANGED <<channels, running, halted, ops>>
    /\ UNCHANGED <<router_vars, message_vars, channel_vars, dispatch_vars>>

\* ------------------------------------------------------------- stop_process
\* kill(pid, sig): the children and the supervisor afterwards.  pid 0 names
\* the caller's whole process group: the supervisor and every child it forked.
\* SIGKILL ends its target; SIGTERM ends a child unless the child handles it,
\* and ends the supervisor unless a handler is installed (main.cpp installs one)
Alive == {p \in Pids : children[p] = "alive"}
Killed(dead) == [p \in Pids |-> IF p \in dead THEN "zombie" ELSE children[p]]
kill(pid, sig) ==
    IF pid = 0
    THEN IF sig = "SIGKILL"
         THEN {[children |-> Killed(Alive), halted |-> TRUE]}
         ELSE {[children |-> Killed(dead), halted |-> h] :
                  dead \in SUBSET Alive, h \in BOOLEAN}
    ELSE IF children[pid] # "alive"
         THEN {[children |-> children, halted |-> FALSE]}
         ELSE IF sig = "SIGKILL"
              THEN {[children |-> Killed({pid}), halted |-> FALSE]}
              ELSE {[children |-> Killed(dead), halted |-> FALSE] :
                       dead \in {{}, {pid}}}

\* locking a std::mutex the thread already owns is undefined: the thread
\* blocks for ever (pthread, SRWLOCK) or the lock throws and the uncaught
\* exception terminates the program (checked mutexes)
relock(t) ==
    \/ pc' = [pc EXCEPT ![t] = "deadlock"] /\ UNCHANGED halted
    \/ halted' = TRUE /\ UNCHANGED pc

\* stop_process up to the first kill(): the lock is taken, the name is looked
\* up, the state becomes STOPPING and the child is signalled
stop_process(t) ==
    /\ At(t, "stop_process")
    /\ LET n == local[t].name IN
       IF manager_mutex = t
       THEN /\ relock(t)
            /\ UNCHANGED <<processes, manager_mutex, children, stack, local, result>>
       ELSE /\ manager_mutex = NoThread
            /\ IF n \notin Registered
               THEN /\ pc' = [pc EXCEPT ![t] = ReturnTo(t)]
                    /\ stack' = [stack EXCEPT ![t] = PopStack(t)]
                    /\ local' = [local EXCEPT ![t] =
                                   LocalAfter(t, @)]
                    /\ result' = [result EXCEPT ![t] = "false"]
                    /\ UNCHANGED <<processes, manager_mutex, children, halted>>
               ELSE \E k \in kill(processes[n].pid,
                                  IF local[t].force THEN "SIGKILL" ELSE "SIGTERM") :
                    /\ processes' = [processes EXCEPT ![n].state = "STOPPING"]
                    /\ children' = k.children
                    /\ halted' = k.halted
                    /\ manager_mutex' = t
                    /\ pc' = [pc EXCEPT ![t] = "terminate"]
                    /\ UNCHANGED <<stack, local, result>>
    /\ UNCHANGED <<channels, running, ops>>
    /\ UNCHANGED <<router_vars, message_vars, channel_vars, dispatch_vars>>

\* a stop_process that counts a restart
stopped_counted(info) ==
    [info EXCEPT !.state = "STOPPED", !.platform_handle = 0, !.pid = 0,
                 !.restart_count = @ + 1]

stopped(info) ==
    [info EXCEPT !.state = "STOPPED", !.platform_handle = 0, !.pid = 0]

\* the rest of stop_process: after sleep(2) the SIGKILL of the graceful path,
\* then STOPPED with the pid and the handle reset
terminate(t) ==
    /\ At(t, "terminate")
    /\ LET n == local[t].name IN
       \E k \in (IF n \in Registered /\ ~local[t].force
                 THEN kill(processes[n].pid, "SIGKILL")
                 ELSE {[children |-> children, halted |-> FALSE]}) :
          /\ children' = k.children
          /\ halted' = k.halted
          /\ processes' = (IF n \in Registered
                           THEN [processes EXCEPT ![n] = stopped(@)]
                           ELSE processes)
    /\ manager_mutex' = NoThread
    /\ pc' = [pc EXCEPT ![t] = ReturnTo(t)]
    /\ stack' = [stack EXCEPT ![t] = PopStack(t)]
    /\ local' = [local EXCEPT ![t] = LocalAfter(t, @)]
    /\ result' = [result EXCEPT ![t] = "true"]
    /\ UNCHANGED <<channels, running, ops>>
    /\ UNCHANGED <<router_vars, message_vars, channel_vars, dispatch_vars>>

\* ---------------------------------------------------------- restart_process
restart_process(t) ==
    /\ At(t, "restart_process")
    /\ pc' = [pc EXCEPT ![t] = "stop_process"]
    /\ stack' = [stack EXCEPT ![t] = <<"restart_start">> \o @]
    /\ local' = [local EXCEPT ![t].force = FALSE]
    /\ UNCHANGED <<processes, channels, running, manager_mutex, children, halted,
                   result, ops>>
    /\ UNCHANGED <<router_vars, message_vars, channel_vars, dispatch_vars>>

\* after stop_process returned and 500 ms passed: return start_process(name)
restart_start(t) ==
    /\ At(t, "restart_start")
    /\ pc' = [pc EXCEPT ![t] = "start_process"]
    /\ UNCHANGED <<processes, channels, running, manager_mutex, children, halted,
                   stack, local, result, ops>>
    /\ UNCHANGED <<router_vars, message_vars, channel_vars, dispatch_vars>>


\* ---------------------------------------------------------- monitor_process
\* while (running): the thread ends when the flag is false
monitor_while(m) ==
    /\ At(m, "mon_while")
    /\ IF running
       THEN pc' = [pc EXCEPT ![m] = "mon_poll"] /\ UNCHANGED local
       ELSE pc' = [pc EXCEPT ![m] = "none"] /\ local' = [local EXCEPT ![m] = NoLocal]
    /\ UNCHANGED <<processes, channels, running, manager_mutex, children, halted,
                   stack, result, ops>>
    /\ UNCHANGED <<router_vars, message_vars, channel_vars, dispatch_vars>>

\* waitpid(pid, &status, WNOHANG): the value returned and the children after
\* it.  A child that has exited is reaped and its pid returned; 0 says the
\* child still runs; -1 says there is no such child.  pid 0 waits for any
\* child of the process group.
waitpid(pid) ==
    IF pid = 0
    THEN LET zombies == {p \in Pids : children[p] = "zombie"} IN
         IF zombies # {}
         THEN {[value |-> z, children |-> [children EXCEPT ![z] = "reaped"]] :
                  z \in zombies}
         ELSE {[value |-> IF Alive # {} THEN 0 ELSE -1, children |-> children]}
    ELSE IF children[pid] = "alive"
         THEN {[value |-> 0, children |-> children]}
         ELSE IF children[pid] = "zombie"
              THEN {[value |-> pid, children |-> [children EXCEPT ![pid] = "reaped"]]}
              ELSE {[value |-> -1, children |-> children]}

\* handle_process_crash's test: restart or leave the record CRASHED
restart_wanted(info) ==
    info.config.auto_restart /\ info.restart_count < info.config.max_restart_attempts

\* the heartbeat check: elapsed > info.config.heartbeat_timeout
heartbeat_timed_out(info) ==
    info.config.enable_heartbeat /\ info.last_heartbeat = "overdue"

\* one round of the monitor after its sleep: lock, look the name up, poll the
\* child, check the heartbeat.  A crash sets CRASHED; when a restart is wanted
\* the thread goes on to restart_process with the mutex still held.
monitor_poll(m) ==
    /\ At(m, "mon_poll")
    /\ manager_mutex = NoThread
    /\ LET n == local[m].name IN
       IF n \notin Registered
       THEN /\ pc' = [pc EXCEPT ![m] = "none"]
            /\ local' = [local EXCEPT ![m] = NoLocal]
            /\ UNCHANGED <<processes, manager_mutex, children>>
       ELSE \E w \in waitpid(processes[n].pid) :
            /\ children' = w.children
            /\ IF w.value # 0 \/ heartbeat_timed_out(processes[n])
               THEN /\ processes' = [processes EXCEPT ![n].state = "CRASHED"]
                    /\ IF restart_wanted(processes[n])
                       THEN /\ pc' = [pc EXCEPT ![m] = "restart_process"]
                            /\ manager_mutex' = m
                            /\ UNCHANGED local
                       ELSE /\ pc' = [pc EXCEPT ![m] = "none"]
                            /\ local' = [local EXCEPT ![m] = NoLocal]
                            /\ UNCHANGED manager_mutex
               ELSE /\ pc' = [pc EXCEPT ![m] = "mon_while"]
                    /\ UNCHANGED <<processes, manager_mutex, local>>
    /\ UNCHANGED <<channels, running, halted, stack, result, ops>>
    /\ UNCHANGED <<router_vars, message_vars, channel_vars, dispatch_vars>>

\* ------------------------------------------------------ start_all / stop_all
\* a start_all that makes a single pass over the table
start_all_once(progress) == FALSE

\* while (progress): another pass over the table after one that started a
\* process
start_all_again(progress) == progress

\* one element of start_all's for loop, or the end of a pass
start_all(t) ==
    /\ At(t, "start_all")
    /\ LET n == NextName(local[t].it) IN
       IF n = NoName
       THEN IF start_all_again(local[t].progress)
            THEN /\ local' = [local EXCEPT ![t].it = NoName, ![t].progress = FALSE]
                 /\ UNCHANGED <<pc, stack>>
            ELSE /\ pc' = [pc EXCEPT ![t] = ReturnTo(t)]
                 /\ stack' = [stack EXCEPT ![t] = PopStack(t)]
                 /\ local' = [local EXCEPT ![t] =
                                LocalAfter(t, [@ EXCEPT !.it = NoName])]
       ELSE IF processes[n].state = "CREATED"
               /\ check_dependencies_ready(processes[n].config)
            THEN /\ local' = [local EXCEPT ![t].it = n, ![t].name = n,
                                           ![t].progress = TRUE]
                 /\ stack' = [stack EXCEPT ![t] = <<"start_all">> \o @]
                 /\ pc' = [pc EXCEPT ![t] = "start_process"]
            ELSE /\ local' = [local EXCEPT ![t].it = n]
                 /\ UNCHANGED <<pc, stack>>
    /\ UNCHANGED <<processes, channels, running, manager_mutex, children, halted,
                   result, ops>>
    /\ UNCHANGED <<router_vars, message_vars, channel_vars, dispatch_vars>>

\* one element of stop_all's for loop
stop_all(t) ==
    /\ At(t, "stop_all")
    /\ LET n == NextName(local[t].it) IN
       IF n = NoName
       THEN /\ pc' = [pc EXCEPT ![t] = ReturnTo(t)]
            /\ stack' = [stack EXCEPT ![t] = PopStack(t)]
            /\ local' = [local EXCEPT ![t] = LocalAfter(t, [@ EXCEPT !.it = NoName])]
       ELSE IF processes[n].state = "RUNNING"
            THEN /\ local' = [local EXCEPT ![t].it = n, ![t].name = n,
                                           ![t].force = FALSE]
                 /\ stack' = [stack EXCEPT ![t] = <<"stop_all">> \o @]
                 /\ pc' = [pc EXCEPT ![t] = "stop_process"]
            ELSE /\ local' = [local EXCEPT ![t].it = n]
                 /\ UNCHANGED <<pc, stack>>
    /\ UNCHANGED <<processes, channels, running, manager_mutex, children, halted,
                   result, ops>>
    /\ UNCHANGED <<router_vars, message_vars, channel_vars, dispatch_vars>>

\* ------------------------------------------------------------ run / shutdown
\* run(): running = true; start_all(); then the event loop
run(t) ==
    /\ CanCall(t) /\ ops' = [ops EXCEPT ![t] = @ + 1]
    /\ running' = TRUE
    /\ pc' = [pc EXCEPT ![t] = "start_all"]
    /\ stack' = [stack EXCEPT ![t] = <<"run_loop">>]
    /\ local' = [local EXCEPT ![t] = NoLocal]
    /\ UNCHANGED <<processes, channels, manager_mutex, children, halted, result>>
    /\ UNCHANGED <<router_vars, message_vars, channel_vars, dispatch_vars>>

\* while (running): run returns once the flag is false, and begins a pass
\* over the channels otherwise
run_loop(t) ==
    /\ At(t, "run_loop")
    /\ IF running
       THEN /\ pc' = [pc EXCEPT ![t] = "run_poll"]
            /\ local' = [local EXCEPT ![t].chan_it = <<>>]
            /\ UNCHANGED stack
       ELSE /\ pc' = [pc EXCEPT ![t] = ReturnTo(t)]
            /\ stack' = [stack EXCEPT ![t] = PopStack(t)]
            /\ local' = [local EXCEPT ![t] = LocalAfter(t, @)]
    /\ UNCHANGED <<processes, channels, running, manager_mutex, children, halted,
                   result, ops>>
    /\ UNCHANGED <<router_vars, message_vars, channel_vars, dispatch_vars>>

\* what a channel's receive may read: nothing within the timeout, or the text
\* of an envelope a child wrote
Wires == {NoText} \cup {to_json(HeartbeatFrom(n)) : n \in Names}

\* one element of the event loop's pass over the channels: receive on the
\* next channel, reading `wire`; a message received is validated and, when
\* valid, routed.  At the end of the pass the thread sleeps and tests the
\* flag again.
run_poll(t, wire) ==
    /\ At(t, "run_poll")
    /\ LET k == NextKey(local[t].chan_it) IN
       IF k = <<>>
       THEN /\ wire = NoText
            /\ pc' = [pc EXCEPT ![t] = "run_loop"]
            /\ local' = [local EXCEPT ![t].chan_it = <<>>]
            /\ UNCHANGED router_vars
       ELSE /\ local' = [local EXCEPT ![t].chan_it = k]
            /\ UNCHANGED pc
            /\ LET got == IF wire = NoText THEN {} ELSE from_json(wire)
                   good == {m \in got : validate_message(m, "").ok}
               IN \/ good # got /\ UNCHANGED router_vars
                  \/ wire = NoText /\ UNCHANGED router_vars
                  \/ \E m \in good : route_message(m)
    /\ UNCHANGED <<processes, channels, running, manager_mutex, children, halted,
                   stack, result, ops>>
    /\ UNCHANGED <<message_vars, channel_vars, dispatch_vars>>

\* the pids of the records that are RUNNING: with the keys of the channel
\* table, what shutdown's caller remembers of the state at the call, to state
\* what shutdown owes
RunningPids == {processes[n].pid : n \in {x \in Registered : processes[x].state = "RUNNING"}}

\* shutdown(): running = false; stop_all(); ...
shutdown(t) ==
    /\ CanCall(t) /\ ops' = [ops EXCEPT ![t] = @ + 1]
    /\ running' = FALSE
    /\ pc' = [pc EXCEPT ![t] = "stop_all"]
    /\ stack' = [stack EXCEPT ![t] = <<"shutdown_close">>]
    /\ local' = [local EXCEPT ![t] = [NoLocal EXCEPT !.snap = RunningPids,
                                                     !.seen = DOMAIN channels]]
    /\ UNCHANGED <<processes, channels, manager_mutex, children, halted, result>>
    /\ UNCHANGED <<router_vars, message_vars, channel_vars, dispatch_vars>>

\* ... the loop closing every channel, then channels.clear(); processes.clear()
shutdown_close(t) ==
    /\ At(t, "shutdown_close")
    /\ LET k == NextKey(local[t].chan_it) IN
       IF k # <<>>
       THEN /\ channels' = [channels EXCEPT ![k].closes = @ + 1]
            /\ local' = [local EXCEPT ![t].chan_it = k]
            /\ UNCHANGED <<processes, pc, stack>>
       ELSE /\ channels' = EmptyMap
            /\ processes' = EmptyMap
            /\ pc' = [pc EXCEPT ![t] = ReturnTo(t)]
            /\ stack' = [stack EXCEPT ![t] = PopStack(t)]
            /\ local' = [local EXCEPT ![t] = LocalAfter(t, @)]
    /\ UNCHANGED <<running, manager_mutex, children, halted, result, ops>>
    /\ UNCHANGED <<router_vars, message_vars, channel_vars, dispatch_vars>>

\* ------------------------------------------------- calls of the public API
call_start_process(t, n) ==
    /\ CanCall(t) /\ ops' = [ops EXCEPT ![t] = @ + 1]
    /\ pc' = [pc EXCEPT ![t] = "start_process"]
    /\ local' = [local EXCEPT ![t] = [NoLocal EXCEPT !.name = n]]
    /\ result' = [result EXCEPT ![t] = "none"]
    /\ UNCHANGED <<processes, channels, running, manager_mutex, children, halted, stack>>
    /\ UNCHANGED <<router_vars, message_vars, channel_vars, dispatch_vars>>

call_stop_process(t, n, force) ==
    /\ CanCall(t) /\ ops' = [ops EXCEPT ![t] = @ + 1]
    /\ pc' = [pc EXCEPT ![t] = "stop_process"]
    /\ local' = [local EXCEPT ![t] = [NoLocal EXCEPT !.name = n, !.force = force]]
    /\ result' = [result EXCEPT ![t] = "none"]
    /\ UNCHANGED <<processes, channels, running, manager_mutex, children, halted, stack>>
    /\ UNCHANGED <<router_vars, message_vars, channel_vars, dispatch_vars>>

call_restart_process(t, n) ==
    /\ CanCall(t) /\ ops' = [ops EXCEPT ![t] = @ + 1]
    /\ pc' = [pc EXCEPT ![t] = "restart_process"]
    /\ local' = [local EXCEPT ![t] = [NoLocal EXCEPT !.name = n]]
    /\ result' = [result EXCEPT ![t] = "none"]
    /\ UNCHANGED <<processes, channels, running, manager_mutex, children, halted, stack>>
    /\ UNCHANGED <<router_vars, message_vars, channel_vars, dispatch_vars>>

call_start_all(t) ==
    /\ CanCall(t) /\ ops' = [ops EXCEPT ![t] = @ + 1]
    /\ pc' = [pc EXCEPT ![t] = "start_all"]
    /\ local' = [local EXCEPT ![t] = NoLocal]
    /\ UNCHANGED <<processes, channels, running, manager_mutex, children, halted,
                   stack, result>>
    /\ UNCHANGED <<router_vars, message_vars, channel_vars, dispatch_vars>>

call_stop_all(t) ==
    /\ CanCall(t) /\ ops' = [ops EXCEPT ![t] = @ + 1]
    /\ pc' = [pc EXCEPT ![t] = "stop_all"]
    /\ local' = [local EXCEPT ![t] = NoLocal]
    /\ UNCHANGED <<processes, channels, running, manager_mutex, children, halted,
                   stack, result>>
    /\ UNCHANGED <<router_vars, message_vars, channel_vars, dispatch_vars>>

\* ------------------------------------------------------------ environment
\* a child process exits on its own
child_exit(p) ==
    /\ ~halted
    /\ children[p] = "alive"
    /\ children' = [children EXCEPT ![p] = "zombie"]
    /\ UNCHANGED <<processes, channels, running, manager_mutex, halted, pc, stack,
                   local, result, ops>>
    /\ UNCHANGED <<router_vars, message_vars, channel_vars, dispatch_vars>>

\* time passes: more than heartbeat_timeout since the record's last_heartbeat.
\* Only a monitor thread reads last_heartbeat, so the step is taken while one
\* is there to see it.
heartbeat_timeout_passes(n) ==
    /\ ~halted
    /\ n \in Registered
    /\ \E m \in Monitors : pc[m] # "none" /\ local[m].name = n
    /\ processes[n].config.enable_heartbeat
    /\ processes[n].last_heartbeat = "recent"
    /\ processes' = [processes EXCEPT ![n].last_heartbeat = "overdue"]
    /\ UNCHANGED <<channels, running, manager_mutex, children, halted, pc, stack,
                   local, result, ops>>
    /\ UNCHANGED <<router_vars, message_vars, channel_vars, dispatch_vars>>

\* a thread that holds a reference into the process table (info, or a map
\* iterator) after another thread's processes.clear(): besides going on with
\* the freed memory, the access may fault and end the program
Dangling(t) ==
    \/ pc[t] \in {"spawn", "terminate"} /\ local[t].name \notin Registered
    \/ pc[t] \in {"start_all", "stop_all"} /\ local[t].it # NoName
                                           /\ local[t].it \notin Registered
    \/ pc[t] = "run_poll" /\ local[t].chan_it # <<>>
                          /\ local[t].chan_it \notin DOMAIN channels
use_after_clear(t) ==
    /\ ~halted
    /\ Dangling(t)
    /\ halted' = TRUE
    /\ UNCHANGED <<processes, channels, running, manager_mutex, children, pc, stack,
                   local, result, ops>>
    /\ UNCHANGED <<router_vars, message_vars, channel_vars, dispatch_vars>>

\* --------------------------------------------------------------- behaviours
\* the thread "main" calls any public operation; the thread "aux" is the one
\* the signal handler of main.cpp runs on, and calls shutdown()
Next ==
    \/ \E n \in Names : \E config \in Configs(n) : register_process("main", config)
    \/ \E n \in Names : call_start_process("main", n)
    \/ \E n \in Names, force \in BOOLEAN : call_stop_process("main", n, force)
    \/ \E n \in Names : call_restart_process("main", n)
    \/ call_start_all("main")
    \/ call_stop_all("main")
    \/ run("main")
    \/ \E t \in Callers : shutdown(t)
    \/ \E t \in Threads : start_process(t)
    \/ \E t \in Threads : spawn(t)
    \/ \E t \in Threads : stop_process(t)
    \/ \E t \in Threads : terminate(t)
    \/ \E t \in Threads : restart_process(t)
    \/ \E t \in Threads : restart_start(t)
    \/ \E t \in Threads : start_all(t)
    \/ \E t \in Threads : stop_all(t)
    \/ \E t \in Threads : run_loop(t)
    \/ \E t \in Threads, wire \in Wires : run_poll(t, wire)
    \/ \E t \in Threads : shutdown_close(t)
    \/ \E t \in Threads : use_after_clear(t)
    \/ \E m \in Monitors : monitor_while(m)
    \/ \E m \in Monitors : monitor_poll(m)
    \/ \E p \in Pids : child_exit(p)
    \/ \E n \in Names : heartbeat_timeout_passes(n)

Spec == Init /\ [][Next]_vars


\* ------------------------- the process table, its accessor and shutdown
\* a caller's get_process_state(name): the lock is taken, the name looked up
\* and the state returned
call_get_process_state(t, name) ==
    /\ CanCall(t) /\ ops' = [ops EXCEPT ![t] = @ + 1]
    /\ manager_mutex = NoThread
    /\ result' = [result EXCEPT ![t] = get_process_state(name)]
    /\ UNCHANGED <<processes, channels, running, manager_mutex, children, halted,
                   pc, stack, local>>
    /\ UNCHANGED <<router_vars, message_vars, channel_vars, dispatch_vars>>

\* registration, the accessor and shutdown(), without a process started
NextTable ==
    \/ \E n \in Names : \E config \in Configs(n) : register_process("main", config)
    \/ \E n \in Names : call_get_process_state("main", n)
    \/ \E t \in Callers : shutdown(t)
    \/ \E t \in Callers : stop_all(t)
    \/ \E t \in Callers : shutdown_close(t)

SpecTable == Init /\ [][NextTable]_vars

\* ------------------------------------------------- the router, on its own
\* register_handler(command, handler): handlers[command].push_back(handler)
register_handler(command, h) ==
    /\ Len(calls) = 0 \/ routed < MaxRoutes
    /\ LET n == Cardinality({<<c, i>> \in (DOMAIN handlers) \X (1..MaxHandlers) :
                               i <= Len(handlers[c])})
       IN n < MaxHandlers
    /\ handlers' = (command :> Append(handlers_for([command |-> command]), h))
                   @@ handlers
    /\ UNCHANGED <<calls, routed>>
    /\ UNCHANGED <<manager_vars, message_vars, channel_vars, dispatch_vars>>

\* a caller hands message m to route_message
route(m) ==
    /\ routed < MaxRoutes
    /\ route_message(m)
    /\ UNCHANGED <<manager_vars, message_vars, channel_vars, dispatch_vars>>

unregister_all ==
    /\ handlers # EmptyMap
    /\ handlers' = EmptyMap
    /\ UNCHANGED <<calls, routed>>
    /\ UNCHANGED <<manager_vars, message_vars, channel_vars, dispatch_vars>>

NextRouter ==
    \/ \E c \in Commands, h \in HandlerIds : register_handler(c, h)
    \/ \E m \in RoutedMessages : route(m)
    \/ unregister_all

SpecRouter == Init /\ [][NextRouter]_vars

\* ------------------------------ the router's lock and the handlers it calls
\* a caller's register_handler(command, handler): lock_guard, push_back,
\* unlock; the caller waits while another thread owns router_mutex
register_handler_locked(t, command, h) ==
    /\ ~halted /\ dispatch[t].at = "idle"
    /\ router_mutex = NoThread
    /\ register_handler(command, h)

\* a caller's route_message(msg) up to the loop: the lock is taken and the
\* command looked up
route_lock(t, m) ==
    /\ ~halted /\ dispatch[t].at = "idle" /\ routed < MaxRoutes
    /\ router_mutex = NoThread
    /\ router_mutex' = t
    /\ dispatch' = [dispatch EXCEPT ![t] = [at |-> "route_loop", msg |-> m, i |-> 1]]
    /\ routed' = routed + 1
    /\ UNCHANGED <<handlers, calls>>
    /\ UNCHANGED <<manager_vars, message_vars, channel_vars>>

\* for (auto& handler : it->second) handler(msg): the next handler is called
\* with the lock held, or the loop ends and the lock_guard unlocks
route_next(t) ==
    /\ ~halted /\ dispatch[t].at = "route_loop"
    /\ LET hs == handlers_for(dispatch[t].msg)
           i == dispatch[t].i
       IN IF i <= Len(hs)
          THEN /\ calls' = Append(calls, <<hs[i], dispatch[t].msg>>)
               /\ dispatch' = [dispatch EXCEPT ![t].at = "handler"]
               /\ UNCHANGED router_mutex
          ELSE /\ router_mutex' = NoThread
               /\ dispatch' = [dispatch EXCEPT ![t] = NoDispatch]
               /\ UNCHANGED calls
    /\ UNCHANGED <<handlers, routed>>
    /\ UNCHANGED <<manager_vars, message_vars, channel_vars>>

\* the handler returns
handler_returns(t) ==
    /\ ~halted /\ dispatch[t].at = "handler"
    /\ dispatch' = [dispatch EXCEPT ![t].at = "route_loop", ![t].i = @ + 1]
    /\ UNCHANGED <<router_mutex, router_vars>>
    /\ UNCHANGED <<manager_vars, message_vars, channel_vars>>

\* the handler throws.  route_message catches nothing: the exception leaves
\* the loop; a caller that catches it gets the lock released by the
\* lock_guard, and with no catch on the way (run(), main()) the program is
\* terminated
handler_throws(t) ==
    /\ ~halted /\ dispatch[t].at = "handler"
    /\ \/ /\ router_mutex' = NoThread
          /\ dispatch' = [dispatch EXCEPT ![t] = NoDispatch]
          /\ UNCHANGED halted
       \/ /\ halted' = TRUE
          /\ UNCHANGED dispatch_vars
    /\ UNCHANGED router_vars
    /\ UNCHANGED <<processes, channels, running, manager_mutex, children, pc, stack,
                   local, result, ops>>
    /\ UNCHANGED <<message_vars, channel_vars>>

\* the handler calls register_handler or route_message of the router it was
\* called by: the thread locks the std::mutex it owns, which is undefined: it
\* blocks for ever, or the lock throws and the program is terminated
handler_calls_router(t) ==
    /\ ~halted /\ dispatch[t].at = "handler"
    /\ \/ /\ dispatch' = [dispatch EXCEPT ![t].at = "deadlock"]
          /\ UNCHANGED halted
       \/ /\ halted' = TRUE
          /\ UNCHANGED dispatch
    /\ UNCHANGED <<router_mutex, router_vars>>
    /\ UNCHANGED <<processes, channels, running, manager_mutex, children, pc, stack,
                   local, result, ops>>
    /\ UNCHANGED <<message_vars, channel_vars>>

NextDispatch ==
    \/ \E t \in Callers, c \in Commands, h \in HandlerIds :
          register_handler_locked(t, c, h)
    \/ \E t \in Callers, m \in RoutedMessages : route_lock(t, m)
    \/ \E t \in Callers : route_next(t)
    \/ \E t \in Callers : handler_calls_router(t)
    \/ \E t \in Callers : handler_returns(t)
    \/ \E t \in Callers : handler_throws(t)

SpecDispatch == Init /\ [][NextDispatch]_vars

\* ------------------------------------------ the event loop and its router
\* register_message_handler(command, handler), called by main before run():
\* hands the handler to the router's register_handler
register_message_handler(command, h) ==
    /\ ~halted /\ pc["main"] = "idle"
    /\ register_handler(command, h)

\* what the channels' receive may read in the event loop: nothing, the
\* heartbeat of a child, or an envelope without a command
NoCommandFrom(n) == [HeartbeatFrom(n) EXCEPT !.command = ""]
LoopEnvelopes == {HeartbeatFrom(n) : n \in Names} \cup {NoCommandFrom(NameSeq[1])}
LoopWires == {NoText} \cup {to_json(e) : e \in LoopEnvelopes}

\* main registers processes and handlers and calls run(); the children send
\* envelopes and exit on their own
NextLoop ==
    \/ \E n \in Names : \E config \in Configs(n) : register_process("main", config)
    \/ \E h \in HandlerIds : register_message_handler("heartbeat", h)
    \/ run("main")
    \/ \E t \in Threads : start_all(t)
    \/ \E t \in Threads : start_process(t)
    \/ \E t \in Threads : spawn(t)
    \/ \E t \in Threads : run_loop(t)
    \/ \E t \in Threads, wire \in LoopWires : run_poll(t, wire)
    \/ \E m \in Monitors : monitor_while(m)
    \/ \E m \in Monitors : monitor_poll(m)
    \/ \E t \in Threads : restart_process(t)
    \/ \E t \in Threads : stop_process(t)
    \/ \E p \in Pids : child_exit(p)
    \/ \E n \in Names : heartbeat_timeout_passes(n)

SpecLoop == Init /\ [][NextLoop]_vars

\* --------------------------------------------- the program of main.cpp
\* manager.run() as main() calls it: once, after the processes are registered
\* and before any child is forked
main_run ==
    /\ \A p \in Pids : children[p] = "none"
    /\ run("main")

\* signal_handler: g_manager is set from the construction on, so the handler
\* calls g_manager->shutdown() whenever a signal is delivered
signal_handler ==
    /\ pc["aux"] = "idle"
    /\ shutdown("aux")

NextMain ==
    \/ \E n \in Names : \E config \in Configs(n) : register_process("main", config)
    \/ main_run
    \/ signal_handler
    \/ \E t \in Threads : start_all(t)
    \/ \E t \in Threads : start_process(t)
    \/ \E t \in Threads : spawn(t)
    \/ \E t \in Threads : run_loop(t)
    \/ \E t \in Threads, wire \in Wires : run_poll(t, wire)
    \/ \E t \in Threads : stop_all(t)
    \/ \E t \in Threads : stop_process(t)
    \/ \E t \in Threads : terminate(t)
    \/ \E t \in Threads : shutdown_close(t)
    \/ \E t \in Threads : use_after_clear(t)
    \/ \E m \in Monitors : monitor_while(m)
    \/ \E m \in Monitors : monitor_poll(m)
    \/ \E t \in Threads : restart_process(t)
    \/ \E p \in Pids : child_exit(p)
    \/ \E n \in Names : heartbeat_timeout_passes(n)

SpecMain == Init /\ [][NextMain]_vars

\* ------------------------------------------- the FileIPC channel, on its own
\* the envelopes a child writes to a channel
Envelopes == RoutedMessages
\* the timeout_ms a caller passes to receive; run() passes 100
Timeouts == {0, 100}
\* std::this_thread::sleep_for(std::chrono::milliseconds(50))
SleepMs == 50
\* a receive that returned false: the caller's msg was not written
NotReceived == [ok |-> FALSE, msg |-> EmptyMessage]

\* the child opens the response file for writing: it exists and is empty
child_creates_response ==
    /\ response_file' = [exists |-> TRUE, text |-> NoText]
    /\ response_file' # response_file
    /\ UNCHANGED <<receiving, received>>
    /\ UNCHANGED <<manager_vars, router_vars, message_vars, dispatch_vars, stdio_vars>>

\* the child writes envelope m into the file it opened
child_writes_response(m) ==
    /\ response_file.exists /\ response_file.text = NoText
    /\ response_file' = [exists |-> TRUE, text |-> to_json(m)]
    /\ UNCHANGED <<receiving, received>>
    /\ UNCHANGED <<manager_vars, router_vars, message_vars, dispatch_vars, stdio_vars>>

\* a caller enters FileIPCChannel::receive(msg, timeout_ms)
receive_call(timeout_ms) ==
    /\ receiving.at = "idle" /\ Len(received) < MaxReceives
    /\ receiving' = [at |-> "open", json |-> NoText, timeout_ms |-> timeout_ms,
                     elapsed |-> 0]
    /\ UNCHANGED <<response_file, received>>
    /\ UNCHANGED <<manager_vars, router_vars, message_vars, dispatch_vars, stdio_vars>>

\* std::ifstream file(response_file_path): a file that opens is read whole
\* and closed; text that is not empty is consumed next
receive_open ==
    /\ receiving.at = "open"
    /\ IF response_file.exists /\ response_file.text # NoText
       THEN receiving' = [receiving EXCEPT !.at = "consume",
                                           !.json = response_file.text]
       ELSE receiving' = [receiving EXCEPT !.at = "elapsed"]
    /\ UNCHANGED <<response_file, received>>
    /\ UNCHANGED <<manager_vars, router_vars, message_vars, dispatch_vars, stdio_vars>>

\* msg = Message::from_json(json); std::remove(response_file_path); return true
receive_consume ==
    /\ receiving.at = "consume"
    /\ \E m \in from_json(receiving.json) :
          received' = Append(received, [ok |-> TRUE, msg |-> m])
    /\ response_file' = NoFile
    /\ receiving' = NotReceiving
    /\ UNCHANGED <<manager_vars, router_vars, message_vars, dispatch_vars, stdio_vars>>

\* if (elapsed >= timeout_ms) return false; otherwise sleep and try again
receive_elapsed ==
    /\ receiving.at = "elapsed"
    /\ IF receiving.elapsed >= receiving.timeout_ms
       THEN /\ received' = Append(received, NotReceived)
            /\ receiving' = NotReceiving
       ELSE /\ receiving' = [receiving EXCEPT !.at = "open",
                                              !.elapsed = @ + SleepMs]
            /\ UNCHANGED received
    /\ UNCHANGED response_file
    /\ UNCHANGED <<manager_vars, router_vars, message_vars, dispatch_vars, stdio_vars>>

NextFileIPC ==
    \/ child_creates_response
    \/ \E m \in Envelopes : child_writes_response(m)
    \/ \E timeout_ms \in Timeouts : receive_call(timeout_ms)
    \/ receive_open
    \/ receive_consume
    \/ receive_elapsed

SpecFileIPC == Init /\ [][NextFileIPC]_vars

\* --------------------------------------------- the Stdio channel, on its own
\* The pipe holds what was written and not yet read, as the pieces written:
\* each the text of an envelope or of a part of one, and whether a newline
\* ends it.  The envelopes are short: a read() of 4095 bytes takes all of them.
Json(e) == to_json(e)
HalfLen == 6
WholeLine(e) == [text |-> Json(e), nl |-> TRUE]
HeadOfLine(e) == [text |-> SubSeq(Json(e), 1, HalfLen), nl |-> FALSE]
TailOfLine(e) == [text |-> SubSeq(Json(e), HalfLen + 1, Len(Json(e))), nl |-> TRUE]

\* the bytes of the pieces, one after the other
RECURSIVE Buffer(_)
Buffer(pieces) ==
    IF pieces = <<>> THEN <<>>
    ELSE Head(pieces).text \o (IF Head(pieces).nl THEN <<"\n">> ELSE <<>>)
         \o Buffer(Tail(pieces))

\* the child writes a whole line, the first part of a line, or the rest of
\* the line it began
child_writes_line(e) ==
    /\ unwritten = <<>> /\ Len(stdout_pipe) < MaxPipe
    /\ stdout_pipe' = Append(stdout_pipe, WholeLine(e))
    /\ UNCHANGED <<unwritten, response_file, receiving, received>>
    /\ UNCHANGED <<manager_vars, router_vars, message_vars, dispatch_vars>>

child_writes_head(e) ==
    /\ unwritten = <<>> /\ Len(stdout_pipe) < MaxPipe
    /\ stdout_pipe' = Append(stdout_pipe, HeadOfLine(e))
    /\ unwritten' = <<TailOfLine(e)>>
    /\ UNCHANGED <<response_file, receiving, received>>
    /\ UNCHANGED <<manager_vars, router_vars, message_vars, dispatch_vars>>

child_writes_tail ==
    /\ unwritten # <<>>
    /\ stdout_pipe' = Append(stdout_pipe, unwritten[1])
    /\ unwritten' = <<>>
    /\ UNCHANGED <<response_file, receiving, received>>
    /\ UNCHANGED <<manager_vars, router_vars, message_vars, dispatch_vars>>

\* StdioChannel::receive(msg, timeout_ms): select() on the pipe; when it is
\* readable, one read() of up to 4095 bytes, msg = Message::from_json(buffer),
\* return true; otherwise return false
stdio_receive ==
    /\ Len(received) < MaxReceives
    /\ IF stdout_pipe = <<>>
       THEN /\ received' = Append(received, NotReceived)
            /\ UNCHANGED stdout_pipe
       ELSE /\ \E m \in from_json(Buffer(stdout_pipe)) :
                  received' = Append(received, [ok |-> TRUE, msg |-> m])
            /\ stdout_pipe' = <<>>
    /\ UNCHANGED <<unwritten, response_file, receiving>>
    /\ UNCHANGED <<manager_vars, router_vars, message_vars, dispatch_vars>>

NextStdio ==
    \/ \E e \in Envelopes : child_writes_line(e)
    \/ \E e \in Envelopes : child_writes_head(e)
    \/ child_writes_tail
    \/ stdio_receive

SpecStdio == Init /\ [][NextStdio]_vars

\* --------------------------------- the validator and the codec, on their own
\* a message of the universe, with an error string that holds an older error
\* or none
InitMessage ==
    /\ processes = EmptyMap
    /\ channels = EmptyMap
    /\ running = FALSE
    /\ manager_mutex = NoThread
    /\ children = [p \in Pids |-> "none"]
    /\ halted = FALSE
    /\ pc = [t \in Threads |-> IF t \in Callers THEN "idle" ELSE "none"]
    /\ stack = [t \in Threads |-> <<>>]
    /\ local = [t \in Threads |-> NoLocal]
    /\ result = [t \in Threads |-> "none"]
    /\ ops = [t \in Callers |-> 0]
    /\ handlers = EmptyMap
    /\ calls = <<>>
    /\ routed = 0
    /\ msg \in Messages
    /\ error \in {"", "Command is empty"}
    /\ valid = "none"
    /\ json = NoText
    /\ decoded = <<>>
    /\ response_file = NoFile
    /\ receiving = NotReceiving
    /\ received = <<>>
    /\ stdout_pipe = <<>>
    /\ unwritten = <<>>
    /\ router_mutex = NoThread
    /\ dispatch = [t \in Callers |-> NoDispatch]

\* bool ok = MessageValidator::validate_message(msg, error)
validate ==
    /\ valid = "none"
    /\ LET v == validate_message(msg, error) IN
       /\ valid' = (IF v.ok THEN "true" ELSE "false")
       /\ error' = v.error
    /\ UNCHANGED <<msg, json, decoded>>
    /\ UNCHANGED <<manager_vars, router_vars, channel_vars, dispatch_vars>>

\* json = msg.to_json()
encode ==
    /\ json = NoText
    /\ json' = to_json(msg)
    /\ UNCHANGED <<msg, error, valid, decoded>>
    /\ UNCHANGED <<manager_vars, router_vars, channel_vars, dispatch_vars>>

\* decoded = Message::from_json(json)
decode ==
    /\ json # NoText
    /\ decoded = <<>>
    /\ \E m \in from_json(json) : decoded' = <<m>>
    /\ UNCHANGED <<msg, error, valid, json>>
    /\ UNCHANGED <<manager_vars, router_vars, channel_vars, dispatch_vars>>

NextMessage == validate \/ encode \/ decode

SpecMessage == InitMessage /\ [][NextMessage]_vars


\* ===================================================================== claims
StateOf(n) == processes[n].state
DependsOn(n) == processes[n].config.depends_on

\* C1: at the moment a process's state changes to RUNNING, every process
\* named in its depends_on is registered and RUNNING.
C1_RunningOnlyAfterDependencies ==
    [][\A n \in Names :
         (/\ n \in DOMAIN processes' /\ processes'[n].state = "RUNNING"
          /\ ~(n \in Registered /\ StateOf(n) = "RUNNING"))
         => \A dep \in processes'[n].config.depends_on :
               dep \in DOMAIN processes' /\ processes'[dep].state = "RUNNING"]_vars

\* a process with a dependency is RUNNING beside the process it depends on
C1_Witness ==
    \E n \in Registered :
        /\ StateOf(n) = "RUNNING" /\ DependsOn(n) # {}
        /\ \A dep \in DependsOn(n) : dep \in Registered /\ StateOf(dep) = "RUNNING"

\* the monitors of process n have all ended or are blocked for ever
MonitorsAtRest(n) ==
    halted \/ \A m \in Monitors : local[m].name = n => pc[m] \in {"none", "deadlock"}

\* C2: a record with auto_restart whose child exited is restarted until
\* restart_count equals max_restart_attempts: once it is CRASHED (not by a
\* failed fork) and no monitor is still working on it, restart_count ==
\* max_restart_attempts.
C2_RestartedUntilAttemptsExhausted ==
    \A n \in Registered :
        (/\ StateOf(n) = "CRASHED" /\ processes[n].last_error = ""
         /\ processes[n].config.auto_restart
         /\ MonitorsAtRest(n))
        => processes[n].restart_count = processes[n].config.max_restart_attempts

\* the transitions of the lifecycle state machine
LifecycleTransitions ==
    {<<"CREATED", "STARTING">>, <<"STARTING", "RUNNING">>, <<"STARTING", "CRASHED">>,
     <<"STARTING", "STOPPING">>, <<"RUNNING", "CRASHED">>, <<"RUNNING", "STOPPING">>,
     <<"STOPPING", "STOPPED">>, <<"CRASHED", "STARTING">>, <<"CRASHED", "STOPPED">>,
     <<"STOPPED", "STARTING">>}

\* C3: every change of a record's state is a transition of the lifecycle
\* state machine.
C3_OnlyLifecycleTransitions ==
    [][\A n \in Names :
         (n \in Registered /\ n \in DOMAIN processes'
          /\ processes'[n].state # StateOf(n))
         => <<StateOf(n), processes'[n].state>> \in LifecycleTransitions]_vars

\* C4: in every reachable state, every record has restart_count <=
\* config.max_restart_attempts.
C4_RestartCountBounded ==
    \A n \in Registered :
        processes[n].restart_count <= processes[n].config.max_restart_attempts

\* the crash handler has decided about a record whose attempts are used up
\* (max_restart_attempts = 0), and about one that may still be restarted
C4_Witness ==
    /\ \E n \in Registered :
          /\ StateOf(n) = "CRASHED" /\ processes[n].config.max_restart_attempts = 0
          /\ processes[n].pid # 0 /\ children[processes[n].pid] = "reaped"
    /\ \E n \in Registered, m \in Monitors :
          /\ StateOf(n) = "CRASHED" /\ processes[n].config.auto_restart
          /\ local[m].name = n /\ pc[m] = "restart_process"

\* C5: start_process on a record that is STARTING, RUNNING or STOPPING returns
\* failure, spawns no child and leaves the record unchanged.
C5_StartRejectedUnlessStartable ==
    [][\A t \in Callers :
         (/\ start_process(t)
          /\ local[t].name \in Registered
          /\ StateOf(local[t].name) \in {"STARTING", "RUNNING", "STOPPING"})
         => /\ pc'[t] # "spawn" /\ result'[t] = "false"
            /\ processes' = processes /\ children' = children]_vars

\* C6: stop_process on a record that is neither RUNNING nor STARTING returns
\* failure, signals no process and leaves the record's state unchanged.
C6_StopRejectedUnlessStoppable ==
    [][\A t \in Callers :
         (/\ stop_process(t)
          /\ local[t].name \in Registered
          /\ StateOf(local[t].name) \notin {"RUNNING", "STARTING"})
         => /\ pc'[t] # "terminate" /\ result'[t] = "false"
            /\ processes' = processes /\ children' = children /\ ~halted']_vars

\* the dependency graph of the registered configs
DepsOf(n) == IF n \in Registered THEN DependsOn(n) ELSE {}
RECURSIVE DepsWithin(_, _)
DepsWithin(S, k) ==
    IF k = 0 THEN S ELSE DepsWithin(S \cup UNION {DepsOf(x) : x \in S}, k - 1)
Acyclic == \A n \in Registered : n \notin DepsWithin(DepsOf(n), Cardinality(Names))
AllDepsRegistered == \A n \in Registered : DependsOn(n) \subseteq Registered

\* start_all runs undisturbed: no other thread has called the supervisor, the
\* dependency graph is acyclic and closed, and no record has failed to spawn,
\* crashed or been stopped
StartAllUndisturbed ==
    /\ ops["aux"] = 0
    /\ Acyclic /\ AllDepsRegistered
    /\ \A n \in Registered : StateOf(n) \in {"CREATED", "RUNNING"}

\* C7: start_all on an acyclic dependency graph whose spawns all succeed
\* returns with every process RUNNING, and a process enters STARTING only
\* when every process it depends on is RUNNING, whatever the key order.
C7_StartAllInDependencyOrder ==
    [][/\ \A t \in Callers :
            (/\ start_all(t) /\ pc'[t] \notin {"start_all", "start_process"}
             /\ StartAllUndisturbed)
            => \A n \in Registered : processes'[n].state = "RUNNING"
       /\ \A n \in Names :
            (/\ n \in Registered /\ n \in DOMAIN processes'
             /\ StateOf(n) # "STARTING" /\ processes'[n].state = "STARTING")
            => \A dep \in DependsOn(n) :
                  dep \in Registered /\ StateOf(dep) = "RUNNING"]_vars

\* start_all, called on its own, is about to return with both processes
\* RUNNING, the first in key order depending on the second
C7_Witness ==
    /\ pc["main"] = "start_all" /\ stack["main"] = <<>>
    /\ NextName(local["main"].it) = NoName /\ ~local["main"].progress
    /\ StartAllUndisturbed
    /\ Registered = Names
    /\ \A n \in Registered : StateOf(n) = "RUNNING"
    /\ DependsOn(NameSeq[1]) = {NameSeq[2]}

\* C8: stop_all stops a process before the processes it depends on: with no
\* other thread calling the supervisor, it never moves a process out of
\* RUNNING while a RUNNING process depends on it.
C8_StopAllReverseDependencyOrder ==
    [][\A t \in Callers :
         (/\ stop_process(t) /\ stack[t] # <<>> /\ Head(stack[t]) = "stop_all"
          /\ pc'[t] = "terminate" /\ ops["aux"] = 0)
         => ~\E b \in Registered :
               local[t].name \in DependsOn(b) /\ StateOf(b) = "RUNNING"]_vars

\* C9: when a shutdown() called while the other thread is in run()'s event
\* loop returns, both tables are empty and no child of a record that was
\* RUNNING when shutdown was called is still alive.
C9_ShutdownStopsEveryRunningProcess ==
    [][\A t \in Callers :
         (/\ shutdown_close(t) /\ pc'[t] = "idle"
          /\ \A o \in Callers \ {t} : pc[o] = "run_loop")
         => /\ processes' = EmptyMap /\ channels' = EmptyMap
            /\ \A p \in local[t].snap : children'[p] # "alive"]_vars

\* C10: however shutdown() calls follow or interrupt one another, no channel
\* that was in the table when they were called is closed a second time.
C10_NoChannelClosedTwice ==
    \A k \in DOMAIN channels :
        (\A t \in Callers : pc[t] = "shutdown_close" => k \in local[t].seen)
        => channels[k].closes <= 1

\* C11: run() returns once shutdown() has made running false: before it
\* returns it is not ended by touching a channel table that shutdown() has
\* destroyed under its pass over the channels.
C11_RunReturnsAfterShutdown ==
    [][\A t \in Callers :
         ~(use_after_clear(t) /\ pc[t] = "run_poll" /\ ~running)]_vars

\* some thread is inside shutdown()
InShutdown ==
    \E t \in Callers :
        \/ pc[t] = "shutdown_close"
        \/ \E i \in 1..Len(stack[t]) : stack[t][i] = "shutdown_close"

\* C12: the exit of a child that start_process put into RUNNING is detected,
\* whether or not run() was called: while the record is RUNNING, its child
\* has exited and no shutdown is under way, a monitor thread watches it.
C12_ExitedChildIsWatched ==
    \A n \in Registered :
        (/\ StateOf(n) = "RUNNING" /\ processes[n].pid # 0
         /\ children[processes[n].pid] = "zombie"
         /\ ~halted /\ ~InShutdown)
        => \E m \in Monitors :
              local[m].name = n /\ pc[m] \in {"mon_while", "mon_poll"}

\* C13: when the monitor finds the heartbeat overdue of a RUNNING record with
\* enable_heartbeat and without auto_restart whose child is alive, it moves
\* the record to CRASHED with last_error "heartbeat timeout".
C13_HeartbeatTimeoutRecorded ==
    [][\A m \in Monitors, n \in Names :
         (/\ monitor_poll(m) /\ local[m].name = n /\ n \in Registered
          /\ StateOf(n) = "RUNNING" /\ ~processes[n].config.auto_restart
          /\ heartbeat_timed_out(processes[n])
          /\ processes[n].pid # 0 /\ children[processes[n].pid] = "alive")
         => /\ processes'[n].state = "CRASHED"
            /\ processes'[n].last_error = "heartbeat timeout"]_vars

\* C14: when the event loop receives a Heartbeat envelope from a RUNNING
\* process P on a channel bound to P, P's last_heartbeat is the current time
\* afterwards.
C14_HeartbeatRefreshesLastHeartbeat ==
    [][\A t \in Callers, n \in Names :
         (/\ run_poll(t, to_json(HeartbeatFrom(n)))
          /\ local'[t].chan_it # <<>> /\ local'[t].chan_it[1] = n
          /\ n \in Registered /\ StateOf(n) = "RUNNING"
          /\ processes[n].pid # 0 /\ children[processes[n].pid] = "alive")
         => processes'[n].last_heartbeat = "recent"]_vars

\* C15: route_message invokes each handler registered under the message's
\* command exactly once with that message, in registration order, and no
\* other handler; a message whose command has no handler has no effect.
C15_RouterDispatch ==
    [][\A m \in RoutedMessages :
         route(m) =>
           LET hs == IF m.command \in DOMAIN handlers
                     THEN handlers[m.command] ELSE <<>>
               new == SubSeq(calls', Len(calls) + 1, Len(calls'))
           IN /\ SubSeq(calls', 1, Len(calls)) = calls
              /\ Len(new) = Len(hs)
              /\ \A i \in 1..Len(hs) : new[i] = <<hs[i], m>>
              /\ handlers' = handlers]_vars

\* two handlers of one command were invoked in registration order, a handler
\* of the other command was not, and a message without handler was dropped
C15_Witness ==
    /\ \E k \in DOMAIN handlers :
          /\ Len(handlers[k]) = 2 /\ handlers[k][1] # handlers[k][2]
          /\ Len(calls) = 2
          /\ \A i \in 1..2 : calls[i][1] = handlers[k][i] /\ calls[i][2].command = k
    /\ routed = 2
    /\ Cardinality(DOMAIN handlers) = 1

\* C16: validate_message reports the first failing check in the order source,
\* target, command, payload over 1,048,576 bytes; "Command is empty" is
\* reported iff the command is empty and source and target are not; on
\* success it returns true and leaves the error string as it was.
C16_ValidateReportsFirstFailure ==
    [][validate =>
         LET src == msg.source_process # ""
             tgt == msg.target_process # ""
             cmd == msg.command # ""
         IN /\ ~src => valid' = "false" /\ error' = "Source process is empty"
            /\ (src /\ ~tgt) => valid' = "false" /\ error' = "Target process is empty"
            /\ (src /\ tgt /\ ~cmd) => valid' = "false" /\ error' = "Command is empty"
            /\ (src /\ tgt /\ cmd /\ msg.data > 1048576) => valid' = "false"
            /\ (src /\ tgt /\ cmd /\ msg.data <= 1048576)
                  => valid' = "true" /\ error' = error
            /\ (valid' = "false" /\ error' = "Command is empty")
                  <=> (src /\ tgt /\ ~cmd)]_vars

\* a message with a payload of exactly 1 MiB passed, and the error string still
\* holds the older error
C16_Witness ==
    /\ valid = "true" /\ msg.data = 1048576 /\ error = "Command is empty"

\* C17: for every message that passes validate_message,
\* from_json(to_json(m)) equals m in all seven fields.
C17_RoundTrip ==
    (decoded # <<>> /\ validate_message(msg, "").ok) => decoded[1] = msg

\* C18: register_process with a name that is not in the table returns true;
\* afterwards get_process_state reports CREATED for it, get_all_processes
\* holds exactly one record for it, and the other records are as they were.
C18_RegisterAddsOneCreatedRecord ==
    [][\A n \in Names : \A config \in Configs(n) :
         (register_process("main", config) /\ n \notin Registered)
         => /\ result'["main"] = "true"
            /\ get_process_state(n)' = "CREATED"
            /\ LET all == get_all_processes' IN
               /\ Len(all) = Cardinality(Registered) + 1
               /\ Cardinality({i \in 1..Len(all) : all[i].config.name = n}) = 1
               /\ \A o \in Registered : \E i \in 1..Len(all) : all[i] = processes[o]]_vars

\* the first operation was a registration: one record, reported CREATED
C18_Witness ==
    /\ ops["main"] = 1 /\ result["main"] = "true"
    /\ \E n \in Names :
          /\ Registered = {n} /\ get_process_state(n) = "CREATED"
          /\ Len(get_all_processes) = 1

\* C19: register_process with a name that is already registered returns false
\* and leaves the process table and the channel table as they were, whatever
\* the state of the record.
C19_DuplicateRegistrationRejected ==
    [][\A n \in Names : \A config \in Configs(n) :
         (register_process("main", config) /\ n \in Registered)
         => /\ result'["main"] = "false"
            /\ processes' = processes /\ channels' = channels]_vars

\* a registration of the name of a RUNNING record was refused
C19_Witness ==
    /\ ops["main"] = 3 /\ result["main"] = "false" /\ pc["main"] = "idle"
    /\ \E n \in Names :
          /\ Registered = {n} /\ StateOf(n) = "RUNNING" /\ DependsOn(n) = {}

\* C20: register_process refuses a config whose depends_on holds a name that
\* is not registered, so every name in every registered depends_on is
\* registered.
C20_DependenciesResolve ==
    \A n \in Registered : \A dep \in DependsOn(n) : dep \in Registered

\* C21: called by one thread on a registered process whose dependencies are
\* ready, start_process; stop_process; start_process succeeds at each step
\* when fork() does: start_process takes the record to STARTING and, the child
\* forked, to RUNNING, whether it was CREATED or STOPPED; stop_process takes a
\* RUNNING record to STOPPED; each returns true, and none of them changes
\* restart_count.
C21_StartStopStart ==
    [][\A n \in Names :
         (/\ n \in Registered /\ n \in DOMAIN processes'
          /\ pc["main"] \in {"start_process", "spawn", "stop_process", "terminate"}
          /\ stack["main"] = <<>> /\ local["main"].name = n
          /\ pc'["main"] # pc["main"])
         => /\ processes'[n].restart_count = processes[n].restart_count
            /\ (start_process("main") /\ check_dependencies_ready(processes[n].config))
                  => pc'["main"] = "spawn" /\ processes'[n].state = "STARTING"
            /\ (spawn("main") /\ children' # children)
                  => /\ processes'[n].state = "RUNNING" /\ processes'[n].pid # 0
                     /\ result'["main"] = "true"
            /\ (stop_process("main") /\ StateOf(n) = "RUNNING")
                  => pc'["main"] = "terminate"
            /\ terminate("main")
                  => /\ processes'[n].state = "STOPPED" /\ processes'[n].pid = 0
                     /\ result'["main"] = "true"]_vars

\* register, start_process, stop_process and the first half of the second
\* start_process: the first child was forked and is gone, stop_process has
\* reset the pid, and the STOPPED record is STARTING again, no restart counted
C21_Witness ==
    /\ ops["main"] = 4 /\ ops["aux"] = 0 /\ pc["main"] = "spawn"
    /\ stack["main"] = <<>>
    /\ \E n \in Names :
          /\ Registered = {n} /\ local["main"].name = n
          /\ StateOf(n) = "STARTING" /\ processes[n].pid = 0
          /\ processes[n].restart_count = 0
          /\ children[1] = "zombie" /\ children[2] = "none"

\* C22: FileIPC receive consumes the response slot: a receive that finds the
\* response file with the text of an envelope in it returns true with that
\* envelope and the file no longer exists afterwards; a receive that returns
\* false leaves the file as it was.
C22_ReceiveConsumesResponse ==
    [][/\ receive_consume
          => /\ ~response_file'.exists
             /\ \A m \in Envelopes :
                  receiving.json = to_json(m)
                  => received'[Len(received')] = [ok |-> TRUE, msg |-> m]
       /\ (receive_elapsed /\ Len(received') > Len(received))
          => /\ received'[Len(received')] = NotReceived
             /\ response_file' = response_file]_vars

\* C23: get_process_state(name) for a name that is not in the process table
\* returns STOPPED, creates no record for the name and changes neither table.
C23_UnknownNameReportsStopped ==
    [][\A n \in Names :
         (call_get_process_state("main", n) /\ n \notin Registered)
         => /\ result'["main"] = "STOPPED"
            /\ n \notin DOMAIN processes'
            /\ processes' = processes /\ channels' = channels]_vars

\* the state of the second name was asked for with only the first registered:
\* STOPPED was returned and the table still holds the one record, CREATED
C23_Witness ==
    /\ pc["main"] = "idle" /\ result["main"] = "STOPPED"
    /\ Registered = {NameSeq[1]} /\ StateOf(NameSeq[1]) = "CREATED"

\* C24: the event loop hands an envelope it received to the router exactly
\* when validate_message accepts it: of the envelopes a RUNNING process sends
\* on its channel, one that fails validation causes no handler invocation, and
\* for one that passes every handler of its command is invoked with it.
C24_ValidationGate ==
    [][\A t \in Callers : \A e \in LoopEnvelopes :
         (/\ run_poll(t, to_json(e)) /\ local'[t].chan_it # <<>>
          /\ local'[t].chan_it \in DOMAIN channels
          /\ local'[t].chan_it[1] = e.source_process
          /\ e.source_process \in Registered
          /\ StateOf(e.source_process) = "RUNNING"
          /\ children[processes[e.source_process].pid] = "alive")
         => IF validate_message(e, "").ok
            THEN calls' = calls \o invoke_all(handlers_for(e), e)
            ELSE calls' = calls]_vars

\* C25: the router lock is not held while a handler executes: router_mutex is
\* free while a handler is running, so a handler that calls register_handler
\* or route_message on the router that called it neither blocks for ever nor
\* ends the program.
C25_HandlerMayCallRouter ==
    [][\A t \in Callers :
         handler_calls_router(t)
         => /\ router_mutex = NoThread
            /\ ~halted' /\ dispatch'[t].at # "deadlock"]_vars

\* C26: a handler that throws while an envelope is dispatched is swallowed:
\* the handlers registered after it for the command are still invoked with
\* the envelope and the program goes on.
C26_HandlerFailureIsolated ==
    [][\A t \in Callers :
         (handler_throws(t) /\ dispatch[t].i < Len(handlers_for(dispatch[t].msg)))
         => /\ ~halted'
            /\ dispatch'[t] = [dispatch[t] EXCEPT !.at = "route_loop", !.i = @ + 1]]_vars

\* C27: the tables are read and written under manager_mutex only, so no two
\* threads access them at the same time: start_all, stop_all and run never
\* iterate the tables, and shutdown never closes the channels or clears the
\* tables, while a monitor thread owns manager_mutex.
C27_TablesAccessedUnderLock ==
    [][\A t \in Callers :
         (\/ start_all(t) \/ stop_all(t) \/ shutdown_close(t)
          \/ \E wire \in Wires : run_poll(t, wire))
         => manager_mutex \notin Monitors]_vars

\* C28: a monitor thread watches the child of its own incarnation only: once
\* stop_process has made the record STOPPED, a round of the monitor thread
\* that was launched for the stopped incarnation changes nothing in the
\* record.
C28_StoppedRecordLeftAlone ==
    [][\A m \in Monitors, n \in Names :
         (/\ monitor_poll(m) /\ local[m].name = n
          /\ n \in Registered /\ StateOf(n) = "STOPPED")
         => processes'[n] = processes[n]]_vars

\* the pieces of the pipe up to its first newline, none if it holds no whole
\* line
FirstLine(pipe) ==
    LET ends == {i \in 1..Len(pipe) : pipe[i].nl}
    IN IF ends = {} THEN 0
       ELSE CHOOSE i \in ends : \A j \in ends : i <= j

\* C29: every receive on a Stdio channel returns one envelope: a receive that
\* finds a whole line in the pipe returns true and takes that line and no
\* more out of the pipe, so the lines behind it are returned by later calls;
\* one that finds no whole line returns false and leaves the part of a line
\* where it is.
C29_OneEnvelopePerReceive ==
    [][stdio_receive =>
         LET k == FirstLine(stdout_pipe) IN
         IF k = 0
         THEN /\ received'[Len(received')] = NotReceived
              /\ stdout_pipe' = stdout_pipe
         ELSE /\ received'[Len(received')].ok
              /\ stdout_pipe' = SubSeq(stdout_pipe, k + 1, Len(stdout_pipe))]_vars

\* C30: the crash-recovery path is deadlock-free: no thread reaches the
\* lock_guard of stop_process or start_process while it owns manager_mutex,
\* and no thread is blocked for ever on it.
C30_CrashPathDeadlockFree ==
    \A t \in Threads :
        /\ pc[t] \in {"stop_process", "start_process"} => manager_mutex # t
        /\ pc[t] # "deadlock"

\* C31: no orphaned children: after every step each child that is alive is
\* the pid of exactly one record, and a record that is CREATED or STOPPED has
\* pid 0 and a null handle; no step of start_process overwrites the pid of a
\* child that is alive, and no step of stop_process signals pid 0.
C31_NoOrphanedChildren ==
    [][/\ \A p \in Pids :
            children'[p] = "alive"
            => Cardinality({n \in DOMAIN processes' : processes'[n].pid = p}) = 1
       /\ \A n \in DOMAIN processes' :
            processes'[n].state \in {"CREATED", "STOPPED"}
            => processes'[n].pid = 0 /\ processes'[n].platform_handle = 0
       /\ \A t \in Threads :
            (pc[t] = "spawn" /\ local[t].name \in Registered /\ spawn(t))
            => \/ processes[local[t].name].pid = 0
               \/ children[processes[local[t].name].pid] # "alive"
       /\ \A t \in Threads :
            (/\ pc[t] = "stop_process" /\ local[t].name \in Registered
             /\ manager_mutex # t /\ stop_process(t))
            => processes[local[t].name].pid # 0
       /\ \A t \in Threads :
            (/\ pc[t] = "terminate" /\ local[t].name \in Registered
             /\ ~local[t].force /\ terminate(t))
            => processes[local[t].name].pid # 0]_vars

\* C32: a shutdown request is never lost: when start_all returns into the
\* loop of run() and a shutdown() called by the signal handler has completed
\* (before run() was entered, or while run() was inside start_all), the flag
\* is false, so that the while test ends run(), and no child is alive.
C32_ShutdownNeverLost ==
    [][(/\ ops["aux"] > 0 /\ pc["aux"] = "idle"
        /\ pc["main"] = "start_all" /\ start_all("main")
        /\ pc'["main"] = "run_loop")
       => /\ ~running'
          /\ \A p \in Pids : children'[p] # "alive"]_vars

====
